---- MODULE Spec2Model ----
(***************************************************************************)
(* PredictionEngine (backend/engine/prediction_engine.py) as a state       *)
(* machine: the engine's fields, the collaborators it talks to (the        *)
(* database manager's game_results table, the registered algorithm         *)
(* objects) and one action per public method.                              *)
(*                                                                         *)
(* Reals are scaled integers: weights and confidences are in tenths        *)
(* (10 = 1.0), scores in hundredths, accuracy in percent.                  *)
(***************************************************************************)
EXTENDS Integers, Sequences, FiniteSets, TLC

VARIABLES
    algorithms,           \* self.algorithms: list of registered algorithm objects
    deep_learning_model,  \* self.deep_learning_model
    result_aggregator,    \* self.result_aggregator
    db_manager,           \* self.db_manager
    game_results,         \* rows of the db manager's game_results table, oldest first
    prediction_log,       \* prediction records written to the store
    tracker,              \* per algorithm object: weight, total_predictions, correct_predictions
    last,                 \* the most recent call: its arguments, what it did, what it returned
    pre                   \* the store and the trackers as they were when that call started

vars == <<algorithms, deep_learning_model, result_aggregator, db_manager,
          game_results, prediction_log, tracker, last, pre>>

(***************************************************************************)
(* Bounds of the model.                                                    *)
(***************************************************************************)
MaxAlgs == 2       \* registered algorithms
MaxResults == 2    \* rows in game_results
MaxRows == 22      \* rows a game_results table holds when the engine is constructed

(***************************************************************************)
(* Values.                                                                 *)
(***************************************************************************)
None == "None"
Labels == {"P", "B", "T"}            \* update_results docstring: P/B/T
Abstain == "abstain"
Actuals == {"B", "X"}                \* arguments tried for actual_result; "X" is no label
Sessions == {1, 2}                   \* the session a caller resolves an outcome for

\* Algorithm objects a caller can register.  a1 and a3 carry the same name.
Algs == {"a1", "a2", "a3"}
AlgName(a) == IF a = "a2" THEN "S2" ELSE "S1"

\* Model objects a caller can set: one without a 'trained' attribute, one
\* untrained, one trained.
Models == {"m_bare", "m_untrained", "m_trained"}
HasTrained(m) == m \in {"m_untrained", "m_trained"}
Trained(m) == m = "m_trained"

Window5 == <<"P", "B", "P", "P", "B">>
Window1 == <<"B">>
DataNone == [given |-> FALSE, last_results |-> <<>>]
Data(w) == [given |-> TRUE, last_results |-> w]
Datas == {DataNone, Data(Window5), Data(Window1)}

DefaultWeight == 10   \* 1.0
LstmWeight == 15      \* 1.5
FetchLimit == 20
SessionId == 1
MinHistory == 1       \* "if not last_results": a fetch of fewer than one row stops predict

\* What a strategy answers for a window (the strategy contract: a label or
\* an abstention, with a confidence).
AlgPredict(a, window) ==
    CASE a = "a1" -> [label |-> "B", confidence |-> 8]
      [] a = "a2" -> [label |-> "P", confidence |-> IF Len(window) = 1 THEN 8 ELSE 6]
      [] OTHER    -> [label |-> Abstain, confidence |-> 0]

(***************************************************************************)
(* Return values.  Python's None, an int, a list, or an exception that     *)
(* leaves the method.                                                      *)
(***************************************************************************)
RetNone == [kind |-> "None", val |-> 0, label |-> "None"]
RetInt(n) == [kind |-> "int", val |-> n, label |-> "None"]
RetList == [kind |-> "list", val |-> 0, label |-> "None"]
RetRaise == [kind |-> "raise", val |-> 0, label |-> "None"]
\* A Consensus, were one returned: its label and aggregate_confidence.
RetConsensus(c) == [kind |-> "Consensus", val |-> c.aggregate_confidence,
                    label |-> c.label]

NoCall ==
    [op |-> "init", data |-> DataNone, save |-> FALSE, actual |-> None,
     window |-> <<>>, reads |-> 0, writes |-> 0, failed |-> FALSE,
     invoked |-> {}, log |-> "info", ret |-> RetNone, stats |-> <<>>,
     cycle |-> FALSE, cycle_window |-> <<>>, active_session |-> 0]

Snapshot == [game_results |-> game_results, prediction_log |-> prediction_log,
             tracker |-> tracker, algorithms |-> algorithms,
             deep_learning_model |-> deep_learning_model]

(***************************************************************************)
(* __init__                                                                *)
(***************************************************************************)
Init ==
    /\ algorithms = <<>>
    /\ deep_learning_model = None
    /\ result_aggregator = None
    /\ db_manager = None
    /\ game_results = <<>>
    /\ prediction_log = <<>>
    /\ tracker = [a \in Algs |-> [weight |-> DefaultWeight,
                                  total_predictions |-> 0,
                                  correct_predictions |-> 0]]
    /\ last = NoCall
    /\ pre = [game_results |-> <<>>, prediction_log |-> <<>>,
              tracker |-> [a \in Algs |-> [weight |-> DefaultWeight,
                                           total_predictions |-> 0,
                                           correct_predictions |-> 0]],
              algorithms |-> <<>>, deep_learning_model |-> None]

(***************************************************************************)
(* register_algorithm, set_deep_learning_model, set_result_aggregator,     *)
(* set_db_manager                                                          *)
(***************************************************************************)
\* register_algorithm with insert(0, algorithm) where line 41 appends.
register_algorithm_InsertsFirst(algorithm) ==
    /\ Len(algorithms) < MaxAlgs
    /\ algorithms' = <<algorithm>> \o algorithms
    /\ last' = [NoCall EXCEPT !.op = "register_algorithm"]
    /\ pre' = Snapshot
    /\ UNCHANGED <<deep_learning_model, result_aggregator, db_manager,
                   game_results, prediction_log, tracker>>

register_algorithm(algorithm) ==
    /\ Len(algorithms) < MaxAlgs
    /\ algorithms' = Append(algorithms, algorithm)
    /\ last' = [NoCall EXCEPT !.op = "register_algorithm"]
    /\ pre' = Snapshot
    /\ UNCHANGED <<deep_learning_model, result_aggregator, db_manager,
                   game_results, prediction_log, tracker>>

set_deep_learning_model(model) ==
    /\ deep_learning_model' = model
    /\ last' = [NoCall EXCEPT !.op = "set_deep_learning_model"]
    /\ pre' = Snapshot
    /\ UNCHANGED <<algorithms, result_aggregator, db_manager,
                   game_results, prediction_log, tracker>>

set_result_aggregator(aggregator) ==
    /\ result_aggregator' = aggregator
    /\ last' = [NoCall EXCEPT !.op = "set_result_aggregator"]
    /\ pre' = Snapshot
    /\ UNCHANGED <<algorithms, deep_learning_model, db_manager,
                   game_results, prediction_log, tracker>>

set_db_manager(manager) ==
    /\ db_manager' = manager
    /\ last' = [NoCall EXCEPT !.op = "set_db_manager"]
    /\ pre' = Snapshot
    /\ UNCHANGED <<algorithms, deep_learning_model, result_aggregator,
                   game_results, prediction_log, tracker>>

(***************************************************************************)
(* The database manager's game_results table.                              *)
(***************************************************************************)
RECURSIVE Reverse(_)
Reverse(s) == IF s = <<>> THEN <<>> ELSE Append(Reverse(Tail(s)), Head(s))

\* SELECT * FROM game_results ORDER BY id DESC LIMIT 20
FetchRecent(rows) ==
    LET n == IF Len(rows) < FetchLimit THEN Len(rows) ELSE FetchLimit
    IN  [i \in 1..n |-> rows[Len(rows) + 1 - i]]

\* The window without "results.reverse()": most recent first.
BuildWindow_NoReverse(rows) ==
    LET last_results == FetchRecent(rows)
    IN  [i \in 1..Len(last_results) |-> last_results[i].result]

\* results = [result['result'] for result in last_results]; results.reverse()
BuildWindow(rows) ==
    LET last_results == FetchRecent(rows)
        results == [i \in 1..Len(last_results) |-> last_results[i].result]
    IN  Reverse(results)

\* db_manager.save_result(result, timestamp, previous_pattern, session_id):
\* one row appended, its id returned.  The timestamp is left out.
save_result(rows, result, previous_pattern, session_id) ==
    Append(rows, [id |-> Len(rows) + 1, result |-> result,
                  previous_pattern |-> previous_pattern,
                  session_id |-> session_id])

\* algorithm.get_info()
Accuracy(r) ==
    IF r.total_predictions = 0 THEN 0
    ELSE (100 * r.correct_predictions) \div r.total_predictions

get_info(a) ==
    [name |-> AlgName(a), weight |-> tracker[a].weight,
     accuracy |-> Accuracy(tracker[a])]

\* getattr(model, 'accuracy', 0.0), getattr(model, 'version', '1.0')
ModelAccuracy(m) == IF m = "m_trained" THEN 60 ELSE 0
ModelVersion(m) == IF m = "m_trained" THEN "2.0" ELSE "1.0"

\* The weight a learning model carries as a strategy (currentWeight()).
ModelWeight(m) == IF m = "m_trained" THEN 20 ELSE LstmWeight

(***************************************************************************)
(* predict(data=None, save_prediction=True).  readOk: the connection and   *)
(* the SELECT of lines 83-88 succeed; logOk: the connection and cursor of  *)
(* lines 105-106 succeed.  The record is what the call did and returned.   *)
(***************************************************************************)
HistoryUnavailableResult == RetNone     \* line 80: return None
NoHistoryAvailableResult == RetNone     \* line 92: return None

\* predict without the "if not self.db_manager" guard of line 78: with no
\* manager set, self.db_manager._get_connection() raises.
PredictCall_NoManagerGuard(data, save_prediction, readOk, logOk) ==
    LET call == [NoCall EXCEPT !.op = "predict", !.data = data,
                               !.save = save_prediction]
    IN
    IF (~data.given) /\ (db_manager = None \/ ~readOk)
    THEN [call EXCEPT !.reads = 1, !.failed = TRUE, !.ret = RetRaise]
    ELSE IF (~data.given) /\ FetchRecent(game_results) = <<>>
    THEN [call EXCEPT !.reads = 1, !.log = "warning_no_results",
                      !.ret = NoHistoryAvailableResult]
    ELSE
        LET window == IF data.given THEN data.last_results
                      ELSE BuildWindow(game_results)
            built == [call EXCEPT !.reads = IF data.given THEN 0 ELSE 1,
                                  !.window = window]
        IN
        IF save_prediction /\ db_manager # None
        THEN IF logOk
             THEN [built EXCEPT !.writes = 1, !.ret = RetNone]
             ELSE [built EXCEPT !.writes = 1, !.failed = TRUE,
                                !.log = "error_save_prediction",
                                !.ret = RetNone]
        ELSE [built EXCEPT !.ret = RetNone]

\* predict without the try/except of lines 104-111: a failure of the
\* prediction-log connection leaves the method as an exception.
PredictCall_LogFailureRaises(data, save_prediction, readOk, logOk) ==
    LET call == [NoCall EXCEPT !.op = "predict", !.data = data,
                               !.save = save_prediction]
    IN
    IF (~data.given) /\ db_manager = None
    THEN [call EXCEPT !.log = "error_no_db_manager",
                      !.ret = HistoryUnavailableResult]
    ELSE IF (~data.given) /\ ~readOk
    THEN [call EXCEPT !.reads = 1, !.failed = TRUE, !.ret = RetRaise]
    ELSE IF (~data.given) /\ FetchRecent(game_results) = <<>>
    THEN [call EXCEPT !.reads = 1, !.log = "warning_no_results",
                      !.ret = NoHistoryAvailableResult]
    ELSE
        LET window == IF data.given THEN data.last_results
                      ELSE BuildWindow(game_results)
            built == [call EXCEPT !.reads = IF data.given THEN 0 ELSE 1,
                                  !.window = window]
        IN
        IF save_prediction /\ db_manager # None
        THEN IF logOk
             THEN [built EXCEPT !.writes = 1, !.ret = RetNone]
             ELSE [built EXCEPT !.writes = 1, !.failed = TRUE,
                                !.ret = RetRaise]
        ELSE [built EXCEPT !.ret = RetNone]

\* predict with "if self.db_manager" where line 103 also tests
\* save_prediction: the prediction-log connection is opened whatever the flag.
PredictCall_IgnoresSaveFlag(data, save_prediction, readOk, logOk) ==
    LET call == [NoCall EXCEPT !.op = "predict", !.data = data,
                               !.save = save_prediction]
    IN
    IF (~data.given) /\ db_manager = None
    THEN [call EXCEPT !.log = "error_no_db_manager",
                      !.ret = HistoryUnavailableResult]
    ELSE IF (~data.given) /\ ~readOk
    THEN [call EXCEPT !.reads = 1, !.failed = TRUE, !.ret = RetRaise]
    ELSE IF (~data.given) /\ FetchRecent(game_results) = <<>>
    THEN [call EXCEPT !.reads = 1, !.log = "warning_no_results",
                      !.ret = NoHistoryAvailableResult]
    ELSE
        LET window == IF data.given THEN data.last_results
                      ELSE BuildWindow(game_results)
            built == [call EXCEPT !.reads = IF data.given THEN 0 ELSE 1,
                                  !.window = window]
        IN
        IF db_manager # None
        THEN IF logOk
             THEN [built EXCEPT !.writes = 1, !.ret = RetNone]
             ELSE [built EXCEPT !.writes = 1, !.failed = TRUE,
                                !.log = "error_save_prediction",
                                !.ret = RetNone]
        ELSE [built EXCEPT !.ret = RetNone]

\* predict with "if self.db_manager" where line 77 tests "data is None":
\* with a manager set the window is fetched, whatever the caller supplied.
PredictCall_AlwaysFetches(data, save_prediction, readOk, logOk) ==
    LET call == [NoCall EXCEPT !.op = "predict", !.data = data,
                               !.save = save_prediction]
        fetch == db_manager # None \/ ~data.given
    IN
    IF fetch /\ db_manager = None
    THEN [call EXCEPT !.log = "error_no_db_manager",
                      !.ret = HistoryUnavailableResult]
    ELSE IF fetch /\ ~readOk
    THEN [call EXCEPT !.reads = 1, !.failed = TRUE, !.ret = RetRaise]
    ELSE IF fetch /\ FetchRecent(game_results) = <<>>
    THEN [call EXCEPT !.reads = 1, !.log = "warning_no_results",
                      !.ret = NoHistoryAvailableResult]
    ELSE
        LET window == IF fetch THEN BuildWindow(game_results)
                      ELSE data.last_results
            built == [call EXCEPT !.reads = IF fetch THEN 1 ELSE 0,
                                  !.window = window]
        IN
        IF save_prediction /\ db_manager # None
        THEN IF logOk
             THEN [built EXCEPT !.writes = 1, !.ret = RetNone]
             ELSE [built EXCEPT !.writes = 1, !.failed = TRUE,
                                !.log = "error_save_prediction",
                                !.ret = RetNone]
        ELSE [built EXCEPT !.ret = RetNone]

PredictCall(data, save_prediction, readOk, logOk) ==
    LET call == [NoCall EXCEPT !.op = "predict", !.data = data,
                               !.save = save_prediction]
    IN
    IF (~data.given) /\ db_manager = None
    THEN [call EXCEPT !.log = "error_no_db_manager",
                      !.ret = HistoryUnavailableResult]
    ELSE IF (~data.given) /\ ~readOk
    THEN [call EXCEPT !.reads = 1, !.failed = TRUE, !.ret = RetRaise]
    ELSE IF (~data.given) /\ FetchRecent(game_results) = <<>>
    THEN [call EXCEPT !.reads = 1, !.log = "warning_no_results",
                      !.ret = NoHistoryAvailableResult]
    ELSE
        LET window == IF data.given THEN data.last_results
                      ELSE BuildWindow(game_results)
            built == [call EXCEPT !.reads = IF data.given THEN 0 ELSE 1,
                                  !.window = window]
        IN
        IF save_prediction /\ db_manager # None
        THEN IF logOk
             THEN [built EXCEPT !.writes = 1, !.ret = RetNone]
             ELSE [built EXCEPT !.writes = 1, !.failed = TRUE,
                                !.log = "error_save_prediction",
                                !.ret = RetNone]
        ELSE [built EXCEPT !.ret = RetNone]

predict(data, save_prediction, readOk, logOk) ==
    /\ last' = PredictCall(data, save_prediction, readOk, logOk)
    /\ pre' = Snapshot
    /\ UNCHANGED <<algorithms, deep_learning_model, result_aggregator,
                   db_manager, game_results, prediction_log, tracker>>

(***************************************************************************)
(* update_results(actual_result).  saveOk: db_manager.save_result          *)
(* succeeds.  The record is what the call did and returned, with the store *)
(* and the trackers it leaves.                                             *)
(***************************************************************************)
\* PerformanceTracker.recordOutcome: one more prediction, one more correct
\* one when the label is the actual outcome.
recordOutcome(r, label, actual) ==
    [r EXCEPT !.total_predictions = @ + 1,
              !.correct_predictions = IF label = actual THEN @ + 1 ELSE @]

\* The header of an update_results call record: its argument, and the
\* window of the predict call it follows, if it follows one that built a
\* window.
UpdateHeader(actual_result) ==
    [NoCall EXCEPT !.op = "update_results",
                   !.actual = actual_result,
                   !.cycle = (last.op = "predict"
                              /\ last.ret.kind # "raise"
                              /\ last.window # <<>>),
                   !.cycle_window = IF last.op = "predict"
                                    THEN last.window ELSE <<>>]

\* update_results that brings the registered algorithms' records up to date
\* before it writes the row, whatever becomes of the write.
UpdateCall_TrackersBeforeSave(actual_result, saveOk) ==
    LET call == UpdateHeader(actual_result)
        registered == {algorithms[i] : i \in 1..Len(algorithms)}
        updated == [a \in Algs |->
                      IF a \in registered
                      THEN recordOutcome(tracker[a],
                                         AlgPredict(a, call.cycle_window).label,
                                         actual_result)
                      ELSE tracker[a]]
    IN
    IF db_manager = None
    THEN [call |-> [call EXCEPT !.log = "error_no_db_manager",
                                !.ret = RetInt(-1)],
          game_results |-> game_results, tracker |-> tracker]
    ELSE IF saveOk
    THEN LET rows == save_result(game_results, actual_result, None, SessionId)
         IN  [call |-> [call EXCEPT !.writes = 1, !.log = "info_saved",
                                    !.ret = RetInt(rows[Len(rows)].id)],
              game_results |-> rows, tracker |-> updated]
    ELSE [call |-> [call EXCEPT !.writes = 1, !.failed = TRUE,
                                !.log = "error_update",
                                !.ret = RetInt(-1)],
          game_results |-> game_results, tracker |-> updated]

\* update_results without the except clause of lines 145-147: a failure of
\* save_result leaves the method as an exception.
UpdateCall_SaveFailureRaises(actual_result, saveOk) ==
    LET call == UpdateHeader(actual_result)
    IN
    IF db_manager = None
    THEN [call |-> [call EXCEPT !.log = "error_no_db_manager",
                                !.ret = RetInt(-1)],
          game_results |-> game_results, tracker |-> tracker]
    ELSE IF saveOk
    THEN LET rows == save_result(game_results, actual_result, None, SessionId)
         IN  [call |-> [call EXCEPT !.writes = 1, !.log = "info_saved",
                                    !.ret = RetInt(rows[Len(rows)].id)],
              game_results |-> rows, tracker |-> tracker]
    ELSE [call |-> [call EXCEPT !.writes = 1, !.failed = TRUE,
                                !.ret = RetRaise],
          game_results |-> game_results, tracker |-> tracker]

\* update_results that calls save_result a second time after the first
\* returned.
UpdateCall_SavesTwice(actual_result, saveOk) ==
    LET call == UpdateHeader(actual_result)
    IN
    IF db_manager = None
    THEN [call |-> [call EXCEPT !.log = "error_no_db_manager",
                                !.ret = RetInt(-1)],
          game_results |-> game_results, tracker |-> tracker]
    ELSE IF saveOk
    THEN LET once == save_result(game_results, actual_result, None, SessionId)
             rows == save_result(once, actual_result, None, SessionId)
         IN  [call |-> [call EXCEPT !.writes = 1, !.log = "info_saved",
                                    !.ret = RetInt(rows[Len(rows)].id)],
              game_results |-> rows, tracker |-> tracker]
    ELSE [call |-> [call EXCEPT !.writes = 1, !.failed = TRUE,
                                !.log = "error_update",
                                !.ret = RetInt(-1)],
          game_results |-> game_results, tracker |-> tracker]

\* update_results that raises where lines 124-126 log and return -1.
UpdateCall_NoManagerRaises(actual_result, saveOk) ==
    LET call == UpdateHeader(actual_result)
    IN
    IF db_manager = None
    THEN [call |-> [call EXCEPT !.log = "error_no_db_manager",
                                !.ret = RetRaise],
          game_results |-> game_results, tracker |-> tracker]
    ELSE IF saveOk
    THEN LET rows == save_result(game_results, actual_result, None, SessionId)
         IN  [call |-> [call EXCEPT !.writes = 1, !.log = "info_saved",
                                    !.ret = RetInt(rows[Len(rows)].id)],
              game_results |-> rows, tracker |-> tracker]
    ELSE [call |-> [call EXCEPT !.writes = 1, !.failed = TRUE,
                                !.log = "error_update",
                                !.ret = RetInt(-1)],
          game_results |-> game_results, tracker |-> tracker]

UpdateCall(actual_result, saveOk) ==
    LET call == UpdateHeader(actual_result)
    IN
    IF db_manager = None
    THEN [call |-> [call EXCEPT !.log = "error_no_db_manager",
                                !.ret = RetInt(-1)],
          game_results |-> game_results, tracker |-> tracker]
    ELSE IF saveOk
    THEN LET rows == save_result(game_results, actual_result, None, SessionId)
         IN  [call |-> [call EXCEPT !.writes = 1, !.log = "info_saved",
                                    !.ret = RetInt(rows[Len(rows)].id)],
              game_results |-> rows, tracker |-> tracker]
    ELSE [call |-> [call EXCEPT !.writes = 1, !.failed = TRUE,
                                !.log = "error_update",
                                !.ret = RetInt(-1)],
          game_results |-> game_results, tracker |-> tracker]

\* active_session: the session the caller is in.  The method has no
\* parameter for it; the call record keeps it beside the arguments.
update_results(actual_result, saveOk, active_session) ==
    LET r == UpdateCall(actual_result, saveOk)
    IN  /\ Len(r.game_results) <= MaxResults
        /\ last' = [r.call EXCEPT !.active_session = active_session]
        /\ game_results' = r.game_results
        /\ tracker' = r.tracker
        /\ pre' = Snapshot
        /\ UNCHANGED <<algorithms, deep_learning_model, result_aggregator,
                       db_manager, prediction_log>>

(***************************************************************************)
(* get_algorithm_stats()                                                   *)
(***************************************************************************)
\* get_algorithm_stats that tests the value of 'trained' where line 162
\* tests that the attribute exists.
AlgorithmStats_TrainedOnly ==
    LET stats == [i \in 1..Len(algorithms) |-> get_info(algorithms[i])]
    IN  IF deep_learning_model # None /\ HasTrained(deep_learning_model)
           /\ Trained(deep_learning_model)
        THEN Append(stats,
                    [name |-> "LSTM", weight |-> LstmWeight,
                     accuracy |-> ModelAccuracy(deep_learning_model),
                     trained |-> Trained(deep_learning_model),
                     model_version |-> ModelVersion(deep_learning_model)])
        ELSE stats

AlgorithmStats ==
    LET stats == [i \in 1..Len(algorithms) |-> get_info(algorithms[i])]
    IN  IF deep_learning_model # None /\ HasTrained(deep_learning_model)
        THEN Append(stats,
                    [name |-> "LSTM", weight |-> LstmWeight,
                     accuracy |-> ModelAccuracy(deep_learning_model),
                     trained |-> Trained(deep_learning_model),
                     model_version |-> ModelVersion(deep_learning_model)])
        ELSE stats

get_algorithm_stats ==
    /\ last' = [NoCall EXCEPT !.op = "get_algorithm_stats",
                              !.ret = RetList, !.stats = AlgorithmStats]
    /\ pre' = Snapshot
    /\ UNCHANGED <<algorithms, deep_learning_model, result_aggregator,
                   db_manager, game_results, prediction_log, tracker>>

Next ==
    \/ \E a \in Algs : register_algorithm(a)
    \/ \E m \in Models \cup {None} : set_deep_learning_model(m)
    \/ \E g \in {None, "aggregator"} : set_result_aggregator(g)
    \/ \E d \in {None, "db"} : set_db_manager(d)
    \/ \E data \in Datas, save_prediction \in BOOLEAN, readOk \in BOOLEAN,
          logOk \in BOOLEAN : predict(data, save_prediction, readOk, logOk)
    \/ \E actual_result \in Actuals, saveOk \in BOOLEAN,
          active_session \in Sessions :
          update_results(actual_result, saveOk, active_session)
    \/ get_algorithm_stats

Spec == Init /\ [][Next]_vars

(***************************************************************************)
(* An engine constructed over a database that already holds rows: the      *)
(* table starts with up to MaxRows results, and predict reads it.          *)
(***************************************************************************)
StoredResult(pattern, i) ==
    IF pattern = 1 THEN (IF i % 3 = 0 THEN "B" ELSE "P")
    ELSE (IF i % 4 = 1 THEN "T" ELSE "B")

StoredRows(n, pattern) ==
    [i \in 1..n |-> [id |-> i, result |-> StoredResult(pattern, i),
                     previous_pattern |-> None, session_id |-> SessionId]]

InitStored ==
    /\ algorithms = <<>>
    /\ deep_learning_model = None
    /\ result_aggregator = None
    /\ db_manager = None
    /\ \E n \in 0..MaxRows, pattern \in {1, 2} :
          game_results = StoredRows(n, pattern)
    /\ prediction_log = <<>>
    /\ tracker = [a \in Algs |-> [weight |-> DefaultWeight,
                                  total_predictions |-> 0,
                                  correct_predictions |-> 0]]
    /\ last = NoCall
    /\ pre = [game_results |-> game_results, prediction_log |-> <<>>,
              tracker |-> tracker,
              algorithms |-> <<>>, deep_learning_model |-> None]

NextStored ==
    \/ \E d \in {None, "db"} : set_db_manager(d)
    \/ \E data \in Datas, save_prediction \in BOOLEAN, readOk \in BOOLEAN,
          logOk \in BOOLEAN : predict(data, save_prediction, readOk, logOk)

SpecStored == InitStored /\ [][NextStored]_vars

(***************************************************************************)
(* The Aggregator and the FanOut of a prediction cycle, as the design      *)
(* describes them: what a Consensus for the registered algorithms and a    *)
(* window is.  Scores are weight x confidence, in hundredths; the          *)
(* aggregate confidence is the winning score over the sum of the           *)
(* participating weights, in tenths.                                       *)
(***************************************************************************)
WellFormed(window) ==
    /\ window # <<>>
    /\ \A i \in 1..Len(window) : window[i] \in Labels

\* The positions of the registered algorithms that do not abstain.
Participants(algs, window) ==
    {i \in 1..Len(algs) : AlgPredict(algs[i], window).label # Abstain}

RECURSIVE ScoreUpTo(_, _, _, _, _)
ScoreUpTo(algs, window, weights, label, n) ==
    IF n = 0 THEN 0
    ELSE ScoreUpTo(algs, window, weights, label, n - 1)
         + (IF AlgPredict(algs[n], window).label = label
            THEN weights[algs[n]].weight * AlgPredict(algs[n], window).confidence
            ELSE 0)

RECURSIVE WeightUpTo(_, _, _, _)
WeightUpTo(algs, window, weights, n) ==
    IF n = 0 THEN 0
    ELSE WeightUpTo(algs, window, weights, n - 1)
         + (IF n \in Participants(algs, window)
            THEN weights[algs[n]].weight ELSE 0)

Score(algs, window, weights, label) ==
    ScoreUpTo(algs, window, weights, label, Len(algs))

Aggregate(algs, window, weights) ==
    LET part == Participants(algs, window)
        best == CHOOSE l \in Labels :
                    \A m \in Labels : Score(algs, window, weights, l)
                                      >= Score(algs, window, weights, m)
        top == Score(algs, window, weights, best)
        tied == {l \in Labels : Score(algs, window, weights, l) = top}
        heaviest == {i \in part :
                        \A j \in part : weights[algs[i]].weight
                                        >= weights[algs[j]].weight}
        total == WeightUpTo(algs, window, weights, Len(algs))
    IN  IF part = {}
        THEN [label |-> Abstain, aggregate_confidence |-> 0]
        ELSE IF Cardinality(tied) = 1
        THEN [label |-> best, aggregate_confidence |-> top \div total]
        ELSE IF Cardinality(heaviest) = 1
                /\ \A i \in heaviest : AlgPredict(algs[i], window).label \in tied
        THEN [label |-> AlgPredict(algs[CHOOSE i \in heaviest : TRUE], window).label,
              aggregate_confidence |-> top \div total]
        ELSE [label |-> Abstain, aggregate_confidence |-> 0]

(***************************************************************************)
(* The calls the claims are about.                                         *)
(***************************************************************************)
Registered == {algorithms[i] : i \in 1..Len(algorithms)}

\* update_results reached save_result and save_result failed.
OutcomeWriteFailed ==
    last.op = "update_results" /\ last.writes = 1 /\ last.failed

\* update_results reached save_result and save_result returned.
OutcomeWriteSucceeded ==
    last.op = "update_results" /\ last.writes = 1 /\ ~last.failed

\* predict reached the prediction-log block and its connection failed.
PredictionLogFailed ==
    last.op = "predict" /\ last.writes = 1 /\ last.failed

\* predict ran with a well-formed window.
PredictedOn(window) ==
    last.op = "predict" /\ last.ret.kind # "raise" /\ last.window = window

(***************************************************************************)
(* C1.  Outcome-resolution atomicity: when the write of the actual outcome *)
(* fails in update_results, the weight, total_predictions and              *)
(* correct_predictions of every algorithm are what they were before the    *)
(* call.                                                                   *)
(***************************************************************************)
C1_FailedWriteLeavesTrackers ==
    OutcomeWriteFailed => \A a \in Algs : tracker[a] = pre.tracker[a]

C1_Witness ==
    /\ OutcomeWriteFailed
    /\ last.cycle
    /\ Len(algorithms) = MaxAlgs

(***************************************************************************)
(* C2 as claimed.  When the write of the actual outcome fails,             *)
(* update_results lets the failure leave as an exception (a                *)
(* PersistenceError that is propagated, not caught inside the engine).     *)
(***************************************************************************)
C2_FailedWritePropagates ==
    OutcomeWriteFailed => last.ret.kind = "raise"

(***************************************************************************)
(* C2 as amended.  When the write of the actual outcome fails,             *)
(* update_results catches the exception, logs it and returns -1; nothing   *)
(* is raised to the caller.  A write that succeeds returns the id of the   *)
(* row it appended, which is not -1, so the caller tells the two apart by  *)
(* the returned value.                                                     *)
(***************************************************************************)
C2_FailedWriteReturnsMinusOne ==
    /\ OutcomeWriteFailed =>
          /\ last.ret = RetInt(-1)
          /\ last.log = "error_update"
    /\ OutcomeWriteSucceeded =>
          /\ last.ret.kind = "int"
          /\ last.ret.val = game_results[Len(game_results)].id
          /\ last.ret.val # -1

C2_Witness ==
    /\ OutcomeWriteFailed
    /\ last.ret = RetInt(-1)
    /\ game_results # <<>>

(***************************************************************************)
(* C3 as claimed.  update_results called with a value outside the label    *)
(* set P, B, T fails and aborts before any write: it does not return a     *)
(* record id, and the stored outcome records are those of before the call. *)
(***************************************************************************)
C3_InvalidOutcomeNotWritten ==
    (last.op = "update_results" /\ last.actual \notin Labels) =>
        /\ ~(last.ret.kind = "int" /\ last.ret.val >= 1)
        /\ game_results = pre.game_results

(***************************************************************************)
(* C4.  predict called with no data while no database manager is set       *)
(* stops as history-unavailable: it returns None (no Consensus) after      *)
(* logging the missing manager, invokes no algorithm, opens no connection  *)
(* to read or to write, and leaves the stored outcomes and the prediction  *)
(* log as they were.                                                       *)
(***************************************************************************)
C4_NoManagerNoData ==
    (last.op = "predict" /\ ~last.data.given /\ db_manager = None) =>
        /\ last.ret = HistoryUnavailableResult
        /\ last.ret.kind # "Consensus"
        /\ last.log = "error_no_db_manager"
        /\ last.invoked = {}
        /\ last.reads = 0
        /\ last.writes = 0
        /\ game_results = pre.game_results
        /\ prediction_log = pre.prediction_log

C4_Witness ==
    /\ last.op = "predict"
    /\ ~last.data.given
    /\ db_manager = None
    /\ last.save
    /\ algorithms # <<>>

(***************************************************************************)
(* C5 as claimed.  predict called with no data while the store holds       *)
(* fewer outcomes than the minimum fails with a result distinct from the   *)
(* history-unavailable one, returns no Consensus and writes nothing, also  *)
(* when save_prediction is true.                                           *)
(***************************************************************************)
C5_NoHistoryDistinctResult ==
    (last.op = "predict" /\ ~last.data.given /\ db_manager # None
        /\ last.reads = 1 /\ ~last.failed
        /\ Len(game_results) < MinHistory) =>
        /\ last.ret # HistoryUnavailableResult
        /\ last.ret.kind # "Consensus"
        /\ last.writes = 0
        /\ game_results = pre.game_results
        /\ prediction_log = pre.prediction_log

(***************************************************************************)
(* C6 as claimed.  For a prediction cycle with a well-formed window in     *)
(* which at least one registered algorithm does not abstain, predict       *)
(* returns a Consensus: its label has the maximum sum of weight x          *)
(* confidence, its aggregate confidence is that maximum over the sum of    *)
(* the participating weights (S1: B, 0.8, 1.0 and S2: P, 0.6, 1.0 give B   *)
(* and 0.4).                                                               *)
(***************************************************************************)
C6_WeightedConsensus ==
    \A w \in {Window5, Window1} :
        (PredictedOn(w) /\ WellFormed(w)
            /\ Participants(algorithms, w) # {}
            /\ Aggregate(algorithms, w, tracker).label # Abstain) =>
            last.ret = RetConsensus(Aggregate(algorithms, w, tracker))

(***************************************************************************)
(* C7 as claimed.  If every registered algorithm abstains (no learning     *)
(* model set) in a prediction cycle with a well-formed window, predict     *)
(* returns a Consensus whose label is the abstention and whose aggregate   *)
(* confidence is 0: a Consensus, not None and not an exception.            *)
(***************************************************************************)
C7_AllAbstainConsensus ==
    \A w \in {Window5, Window1} :
        (PredictedOn(w) /\ WellFormed(w)
            /\ algorithms # <<>>
            /\ deep_learning_model = None
            /\ Participants(algorithms, w) = {}) =>
            last.ret = RetConsensus([label |-> Abstain,
                                     aggregate_confidence |-> 0])

(***************************************************************************)
(* C8 as claimed.  When two algorithms of equal weight and equal           *)
(* confidence predict different labels, predict returns the abstaining     *)
(* Consensus with aggregate confidence 0, and neither label.               *)
(***************************************************************************)
C8_TieAbstains ==
    \A w \in {Window5, Window1} :
        (PredictedOn(w) /\ WellFormed(w)
            /\ Len(algorithms) = 2
            /\ Participants(algorithms, w) = {1, 2}
            /\ tracker[algorithms[1]].weight = tracker[algorithms[2]].weight
            /\ AlgPredict(algorithms[1], w).confidence
                 = AlgPredict(algorithms[2], w).confidence
            /\ AlgPredict(algorithms[1], w).label
                 # AlgPredict(algorithms[2], w).label) =>
            last.ret = RetConsensus([label |-> Abstain,
                                     aggregate_confidence |-> 0])

(***************************************************************************)
(* C9 as claimed.  After a prediction cycle followed by a successful       *)
(* update_results(actual), every registered algorithm whose prediction for *)
(* the cycle's window is not an abstention has total_predictions one       *)
(* higher, and correct_predictions one higher exactly when its label is    *)
(* the actual outcome; the other algorithms' records are unchanged.        *)
(***************************************************************************)
C9_TrackersFollowOutcome ==
    (OutcomeWriteSucceeded /\ last.cycle /\ WellFormed(last.cycle_window)
        /\ last.actual \in Labels) =>
        \A a \in Algs :
            IF a \in Registered
               /\ AlgPredict(a, last.cycle_window).label # Abstain
            THEN tracker[a] =
                    recordOutcome(pre.tracker[a],
                                  AlgPredict(a, last.cycle_window).label,
                                  last.actual)
            ELSE tracker[a] = pre.tracker[a]

(***************************************************************************)
(* C10.  A failure of the prediction-log connection in predict             *)
(* (save_prediction true, a database manager set) changes nothing of what  *)
(* predict returns: the call returns what the same call returns when the   *)
(* connection succeeds, and no exception leaves predict.                   *)
(***************************************************************************)
C10_LogFailureKeepsResult ==
    PredictionLogFailed =>
        /\ last.ret.kind # "raise"
        /\ last.ret = PredictCall(last.data, last.save, TRUE, TRUE).ret
        /\ last.window = PredictCall(last.data, last.save, TRUE, TRUE).window

C10_Witness ==
    /\ PredictionLogFailed
    /\ last.save
    /\ last.window # <<>>
    /\ algorithms # <<>>
(***************************************************************************)
(* The summaries get_algorithm_stats returned.                             *)
(***************************************************************************)
StatsReturned == last.op = "get_algorithm_stats" /\ last.ret.kind = "list"

\* The summaries of the registered algorithms come first, one each, in
\* registration order.
AlgorithmSummariesInOrder ==
    /\ Len(last.stats) >= Len(algorithms)
    /\ \A i \in 1..Len(algorithms) :
          last.stats[i].name = AlgName(algorithms[i])

(***************************************************************************)
(* C11 as claimed.  get_algorithm_stats returns one summary per registered *)
(* algorithm, in registration order, followed by one summary for the       *)
(* learning model if and only if a model is set and is marked trained; a   *)
(* model that is set but not trained contributes no summary.               *)
(***************************************************************************)
C11_ModelSummaryIffTrained ==
    StatsReturned =>
        /\ AlgorithmSummariesInOrder
        /\ Len(last.stats) = Len(algorithms)
             + (IF deep_learning_model # None /\ Trained(deep_learning_model)
                THEN 1 ELSE 0)

(***************************************************************************)
(* C11 as amended.  get_algorithm_stats returns one summary per registered *)
(* algorithm, in registration order, followed by one summary for the       *)
(* learning model if and only if a model is set and has a 'trained'        *)
(* attribute, whatever its value; a model that is set but not trained      *)
(* contributes a summary whose 'trained' field is false.                   *)
(***************************************************************************)
C11_ModelSummaryIffHasTrained ==
    StatsReturned =>
        /\ AlgorithmSummariesInOrder
        /\ IF deep_learning_model # None /\ HasTrained(deep_learning_model)
           THEN /\ Len(last.stats) = Len(algorithms) + 1
                /\ last.stats[Len(last.stats)].name = "LSTM"
                /\ last.stats[Len(last.stats)].trained
                     = Trained(deep_learning_model)
           ELSE Len(last.stats) = Len(algorithms)

C11_Witness ==
    /\ StatsReturned
    /\ deep_learning_model = "m_untrained"
    /\ Len(algorithms) = 2
    /\ algorithms[1] # algorithms[2]
    /\ Len(last.stats) = 3

(***************************************************************************)
(* C12 as claimed.  Every weight and accuracy get_algorithm_stats returns  *)
(* is the current weight and accuracy of the algorithm, or of the learning *)
(* model, it summarises: never a stale or a fixed value.                   *)
(***************************************************************************)
C12_StatsAreCurrent ==
    StatsReturned =>
        /\ AlgorithmSummariesInOrder
        /\ \A i \in 1..Len(algorithms) :
              /\ last.stats[i].weight = tracker[algorithms[i]].weight
              /\ last.stats[i].accuracy = Accuracy(tracker[algorithms[i]])
        /\ Len(last.stats) > Len(algorithms) =>
              /\ last.stats[Len(last.stats)].weight
                   = ModelWeight(deep_learning_model)
              /\ last.stats[Len(last.stats)].accuracy
                   = ModelAccuracy(deep_learning_model)

(***************************************************************************)
(* C13 as claimed.  After any sequence of register_algorithm calls no two  *)
(* registered algorithms share a name.                                     *)
(***************************************************************************)
C13_UniqueNames ==
    \A i, j \in 1..Len(algorithms) :
        i # j => AlgName(algorithms[i]) # AlgName(algorithms[j])
(***************************************************************************)
(* C14 as claimed.  Every outcome record update_results appends carries    *)
(* the identifier of the session it was resolved for, so that resolutions  *)
(* for different sessions give records with different session identifiers. *)
(***************************************************************************)
C14_RecordCarriesSession ==
    OutcomeWriteSucceeded =>
        game_results[Len(game_results)].session_id = last.active_session
(***************************************************************************)
(* C15.  When predict builds the window from the store, the window holds   *)
(* the most recent outcomes in chronological order, oldest first and most  *)
(* recent last (the reverse of the most-recent-first fetch), and its       *)
(* length is the number of stored outcomes or 20, whichever is smaller.    *)
(***************************************************************************)
WindowFromStore ==
    last.op = "predict" /\ ~last.data.given /\ last.reads = 1
        /\ ~(last.ret.kind = "raise") /\ game_results # <<>>

C15_WindowChronological ==
    WindowFromStore =>
        LET n == Len(game_results)
            w == last.window
        IN  /\ Len(w) <= FetchLimit
            /\ Len(w) = IF n < FetchLimit THEN n ELSE FetchLimit
            /\ \A i \in 1..Len(w) : w[i] = game_results[n - Len(w) + i].result
            /\ \A i \in 1..Len(w) :
                  w[i] = FetchRecent(game_results)[Len(w) + 1 - i].result

C15_Witness ==
    /\ WindowFromStore
    /\ Len(game_results) > FetchLimit
    /\ Len(last.window) = FetchLimit
    /\ last.window[1] # last.window[FetchLimit]
(***************************************************************************)
(* C16.  Each successful update_results appends exactly one outcome        *)
(* record, and no operation of the engine changes or removes a recorded    *)
(* outcome: in every step the table either stays as it is, or a            *)
(* successful update_results has put one row, holding its argument, after  *)
(* the rows that were there, which keep their value and position.          *)
(***************************************************************************)
OutcomeAppended ==
    /\ Len(game_results') = Len(game_results) + 1
    /\ SubSeq(game_results', 1, Len(game_results)) = game_results
    /\ game_results'[Len(game_results')].result = last'.actual
    /\ last'.ret = RetInt(game_results'[Len(game_results')].id)

C16_HistoryAppendOnly ==
    [][IF last'.op = "update_results" /\ last'.writes = 1 /\ ~last'.failed
       THEN OutcomeAppended
       ELSE game_results' = game_results]_vars

C16_Witness ==
    /\ OutcomeWriteSucceeded
    /\ Len(game_results) = 2
    /\ game_results[1].result # game_results[2].result
    /\ SubSeq(game_results, 1, 1) = pre.game_results

(***************************************************************************)
(* C17.  predict called with save_prediction false performs no write: it   *)
(* opens no connection to write and the stored outcomes and the prediction *)
(* log are the same after the call as before it, on every path.            *)
(***************************************************************************)
C17_NoSaveNoWrite ==
    (last.op = "predict" /\ ~last.save) =>
        /\ last.writes = 0
        /\ game_results = pre.game_results
        /\ prediction_log = pre.prediction_log

C17_Witness ==
    /\ last.op = "predict"
    /\ ~last.save
    /\ db_manager # None
    /\ last.window # <<>>
    /\ last.reads = 1

(***************************************************************************)
(* C18.  predict called with data uses the caller's window as it is: it    *)
(* reads nothing from the store to build the window, whether or not a      *)
(* database manager is set, and the window it works on is the supplied     *)
(* one, unmodified.                                                        *)
(***************************************************************************)
C18_SuppliedWindowVerbatim ==
    (last.op = "predict" /\ last.data.given) =>
        /\ last.reads = 0
        /\ last.window = last.data.last_results

C18_Witness ==
    /\ last.op = "predict"
    /\ last.data = Data(Window5)
    /\ db_manager # None
    /\ game_results # <<>>
    /\ last.window = Window5

(***************************************************************************)
(* C19.  The registration changes only through register_algorithm and      *)
(* set_deep_learning_model: predict, update_results, get_algorithm_stats   *)
(* and the other setters leave the list of algorithms and the model        *)
(* unchanged, register_algorithm appends its argument and leaves the model *)
(* unchanged, set_deep_learning_model leaves the list unchanged and the    *)
(* one model slot holds what it was given or nothing.                      *)
(***************************************************************************)
C19_RegistrationFrame ==
    /\ last.op \in {"predict", "update_results", "get_algorithm_stats",
                    "set_db_manager", "set_result_aggregator"} =>
          /\ algorithms = pre.algorithms
          /\ deep_learning_model = pre.deep_learning_model
    /\ last.op = "register_algorithm" =>
          /\ deep_learning_model = pre.deep_learning_model
          /\ Len(algorithms) = Len(pre.algorithms) + 1
          /\ SubSeq(algorithms, 1, Len(pre.algorithms)) = pre.algorithms
    /\ last.op = "set_deep_learning_model" =>
          algorithms = pre.algorithms
    /\ deep_learning_model \in Models \cup {None}

C19_Witness ==
    /\ last.op = "register_algorithm"
    /\ Len(algorithms) = 2
    /\ algorithms[1] # algorithms[2]
    /\ deep_learning_model = "m_trained"

(***************************************************************************)
(* C20.  update_results called while no database manager is set returns    *)
(* -1 without raising, attempts no write and leaves the registration and   *)
(* every algorithm's record unchanged; and update_results never raises: it *)
(* returns the record id of the row it stored, or -1.                      *)
(***************************************************************************)
C20_UpdateNeverRaises ==
    last.op = "update_results" =>
        /\ last.ret.kind = "int"
        /\ \/ last.ret.val = -1
           \/ /\ game_results # <<>>
              /\ last.ret.val = game_results[Len(game_results)].id
        /\ db_manager = None =>
              /\ last.ret = RetInt(-1)
              /\ last.writes = 0
              /\ game_results = pre.game_results
              /\ algorithms = pre.algorithms
              /\ deep_learning_model = pre.deep_learning_model
              /\ \A a \in Algs : tracker[a] = pre.tracker[a]

C20_Witness ==
    /\ last.op = "update_results"
    /\ db_manager = None
    /\ last.ret = RetInt(-1)
    /\ algorithms # <<>>
    /\ deep_learning_model # None
====
